---- MODULE Spec2Model ----
(***************************************************************************)
(* Model of the journey selection and fare-normalization pipeline of       *)
(* route_calculator.py (class TravelCalculator) and of the dashboard      *)
(* app.py that drives it: fare extraction, deduplication of journey        *)
(* options, the transit and road queries with their failure results, the   *)
(* last-journey cache, option selection and the commute cost projection.   *)
(*                                                                         *)
(* Encoding of Python values                                               *)
(*   dict            a function over the set of its keys; a key the dict   *)
(*                   does not have is not in its DOMAIN                    *)
(*   list            a sequence                                            *)
(*   number / None   [isNone |-> FALSE, v |-> n] / [isNone |-> TRUE, ...]  *)
(*   str             a sequence of one-character strings where the code    *)
(*                   looks inside it (station names), a string otherwise   *)
(*   money (float)   an exact decimal, counted in 1/10000 of a pound;      *)
(*                   binary floating-point rounding is not modelled        *)
(*   JSON null       the key is listed in the "nulls" field of its dict    *)
(*   exception       [raised |-> name] in place of the returned value      *)
(***************************************************************************)
EXTENDS Integers, Sequences, FiniteSets, TLC

VARIABLES
    tfl_app_key,    \* self.tfl_app_key: TRUE when a key is configured
    last_journey,   \* self.last_journey
    requests,       \* number of HTTP requests issued so far
    pc,             \* "call": the operation is about to run, "done": it returned
    call,           \* the operation invoked, with its arguments and the
                    \* response the network has for it
    ret,            \* the value the operation returned
    sent,           \* the query parameters of the last request, as sent
    session,        \* st.session_state of the dashboard (app.py), or
                    \* NoSession in a process that is not the dashboard
    stdin           \* what the user types at the prompt, not yet read

vars == <<tfl_app_key, last_journey, requests, pc, call, ret, sent, session, stdin>>

-----------------------------------------------------------------------------
(* Python values *)

EmptyDict == <<>>
Field(k, val) == [f \in {k} |-> val]
Has(d, k) == k \in DOMAIN d

None == [isNone |-> TRUE, v |-> 0]
Num(n) == [isNone |-> FALSE, v |-> n]
NoneStr == [isNone |-> TRUE, v |-> ""]
Str(s) == [isNone |-> FALSE, v |-> s]

\* bool(x) for a number or None, and for a str or None
Truthy(x) == ~x.isNone /\ x.v # 0
TruthyStr(x) == ~x.isNone /\ x.v # ""

\* the decimal p.cc pounds, in units of 1/10000 pound
Pounds(p, cc) == p * 10000 + cc * 100

NoReturn == [noreturn |-> TRUE]

\* a key whose JSON value is null is listed in the "nulls" field of its
\* dict, and carries the empty value of its type there
IsNull(d, k) == Has(d, "nulls") /\ k \in d["nulls"]

\* an exception that leaves the operation
Raised(e) == [raised |-> e]
NoSession == [isNone |-> TRUE]

-----------------------------------------------------------------------------
(* Bounds and input domains *)

MaxFares == 2

TotalCosts == {None, Num(-100), Num(0), Num(250), Num(280)}
LowZones == {-50, 0, 180}
HighZones == {-60, 0, 220}
CaveatTexts == {NoneStr, Str("zones 1-2")}

RECURSIVE SeqsUpTo(_, _)
SeqsUpTo(S, n) ==
    IF n = 0 THEN {<<>>}
    ELSE LET shorter == SeqsUpTo(S, n - 1)
         IN  shorter \cup {Append(s, e) : s \in {t \in shorter : Len(t) = n - 1}, e \in S}

FareElements ==
    {lo @@ hi : lo \in {EmptyDict} \cup {Field("lowZone", z) : z \in LowZones},
                hi \in {EmptyDict} \cup {Field("highZone", z) : z \in HighZones}}

\* fare blocks whose fares list has at most n elements
FareBlocksUpTo(n) ==
    {tc @@ fs @@ cv :
        tc \in {EmptyDict} \cup {Field("totalCost", t) : t \in TotalCosts},
        fs \in {EmptyDict} \cup {Field("fares", l) : l \in SeqsUpTo(FareElements, n)},
        cv \in {EmptyDict} \cup {Field("caveatText", c) : c \in CaveatTexts}}

\* raw journeys, as far as _extract_fare reads them
FareJourneysUpTo(n) == {EmptyDict} \cup {Field("fare", fd) : fd \in FareBlocksUpTo(n)}
FareJourneys == FareJourneysUpTo(MaxFares)

-----------------------------------------------------------------------------
(* TravelCalculator._extract_fare *)

\* x / 100 for x in pence: the amount in pounds
Div100(x) == x * 100

fare_info_init ==
    [total_cost |-> None, peak_single |-> None,
     off_peak_single |-> None, zones |-> NoneStr]

\* lines 149-152
extract_total_cost(fare_info, fare_data) ==
    IF Has(fare_data, "totalCost")
       /\ Truthy(fare_data["totalCost"])
       /\ fare_data["totalCost"].v > 0
    THEN [fare_info EXCEPT !.total_cost = Num(Div100(fare_data["totalCost"].v))]
    ELSE fare_info

\* line 155
UseFaresWithoutCheck(fare_info, fare_data) ==
    Has(fare_data, "fares") /\ Len(fare_data["fares"]) > 0

use_fares_breakdown(fare_info, fare_data) ==
    /\ ~Truthy(fare_info.total_cost)
    /\ Has(fare_data, "fares")
    /\ Len(fare_data["fares"]) > 0

\* lines 159-164
TryHighZoneFirst(fare_info, first_fare) ==
    IF Has(first_fare, "highZone") /\ first_fare["highZone"] > 0
    THEN [fare_info EXCEPT !.total_cost = Num(Div100(first_fare["highZone"])),
                           !.peak_single = Num(Div100(first_fare["highZone"]))]
    ELSE IF Has(first_fare, "lowZone") /\ first_fare["lowZone"] > 0
    THEN [fare_info EXCEPT !.total_cost = Num(Div100(first_fare["lowZone"])),
                           !.off_peak_single = Num(Div100(first_fare["lowZone"]))]
    ELSE fare_info

try_fare_fields(fare_info, first_fare) ==
    IF Has(first_fare, "lowZone") /\ first_fare["lowZone"] > 0
    THEN [fare_info EXCEPT !.total_cost = Num(Div100(first_fare["lowZone"])),
                           !.off_peak_single = Num(Div100(first_fare["lowZone"]))]
    ELSE IF Has(first_fare, "highZone") /\ first_fare["highZone"] > 0
    THEN [fare_info EXCEPT !.total_cost = Num(Div100(first_fare["highZone"])),
                           !.peak_single = Num(Div100(first_fare["highZone"]))]
    ELSE fare_info

\* lines 167-170
StoreBothIfPositive(fare_info, first_fare) ==
    LET fi == IF Has(first_fare, "highZone") /\ first_fare["highZone"] > 0
              THEN [fare_info EXCEPT !.peak_single = Num(Div100(first_fare["highZone"]))]
              ELSE fare_info
    IN  IF Has(first_fare, "lowZone") /\ first_fare["lowZone"] > 0
        THEN [fi EXCEPT !.off_peak_single = Num(Div100(first_fare["lowZone"]))]
        ELSE fi

store_both(fare_info, first_fare) ==
    LET fi == IF Has(first_fare, "highZone")
              THEN [fare_info EXCEPT !.peak_single = Num(Div100(first_fare["highZone"]))]
              ELSE fare_info
    IN  IF Has(first_fare, "lowZone")
        THEN [fi EXCEPT !.off_peak_single = Num(Div100(first_fare["lowZone"]))]
        ELSE fi

\* lines 173-174
ZonesAlwaysText(fare_info, fare_data) ==
    [fare_info EXCEPT !.zones = Str("zones 1-2")]

get_zones(fare_info, fare_data) ==
    IF Has(fare_data, "caveatText")
    THEN [fare_info EXCEPT !.zones = fare_data["caveatText"]]
    ELSE fare_info

\* lines 136-176
extract_fare(journey) ==
    IF ~Has(journey, "fare") THEN fare_info_init
    ELSE LET fare_data == journey["fare"]
             fi1 == extract_total_cost(fare_info_init, fare_data)
             fi2 == IF use_fares_breakdown(fi1, fare_data)
                    THEN LET first_fare == fare_data["fares"][1]
                         IN  store_both(try_fare_fields(fi1, first_fare), first_fare)
                    ELSE fi1
         IN  get_zones(fi2, fare_data)

\* lines 149-170: `in`, len() and > applied to None raise TypeError
extract_fare_faults(journey) ==
    /\ Has(journey, "fare")
    /\ \/ IsNull(journey, "fare")
       \/ LET fare_data == journey["fare"]
              fi1 == extract_total_cost(fare_info_init, fare_data)
          IN  /\ ~Truthy(fi1.total_cost)
              /\ Has(fare_data, "fares")
              /\ \/ IsNull(fare_data, "fares")
                 \/ /\ Len(fare_data["fares"]) > 0
                    /\ \/ IsNull(fare_data["fares"][1], "lowZone")
                       \/ IsNull(fare_data["fares"][1], "highZone")

-----------------------------------------------------------------------------
(* Fare extraction applied to every raw journey of FareJourneys *)

InitFare ==
    /\ tfl_app_key \in BOOLEAN
    /\ last_journey = [isNone |-> TRUE]
    /\ requests = 0
    /\ sent = EmptyDict
    /\ session = NoSession
    /\ stdin = <<>>
    /\ pc = "call"
    /\ call \in {[op |-> "_extract_fare", journey |-> j] : j \in FareJourneys}
    /\ ret = NoReturn

ExtractFare ==
    /\ pc = "call"
    /\ call.op = "_extract_fare"
    /\ ret' = extract_fare(call.journey)
    /\ pc' = "done"
    /\ UNCHANGED <<tfl_app_key, last_journey, requests, call, sent, session, stdin>>

NextFare == ExtractFare

SpecFare == InitFare /\ [][NextFare]_vars

-----------------------------------------------------------------------------
(* TravelCalculator.get_all_journey_options *)

MaxJourneys == 3
MaxLegs == 2

NoneList == [isNone |-> TRUE, v |-> <<>>]
List(l) == [isNone |-> FALSE, v |-> l]

\* d.get(k, default)
Get(d, k, default) == IF Has(d, k) THEN d[k] ELSE default

\* str.strip() and str.lower(), on the characters that occur in the model
IsSpace(c) == c = " "

RECURSIVE LStrip(_)
LStrip(s) ==
    IF s # <<>> /\ IsSpace(Head(s)) THEN LStrip(Tail(s)) ELSE s

RECURSIVE RStrip(_)
RStrip(s) ==
    IF s # <<>> /\ IsSpace(s[Len(s)]) THEN RStrip(SubSeq(s, 1, Len(s) - 1)) ELSE s

Strip(s) == RStrip(LStrip(s))

LowerChar(c) ==
    CASE c = "K" -> "k"
      [] c = "O" -> "o"
      [] c = "X" -> "x"
      [] c = "Q" -> "q"
      [] OTHER -> c

Lower(s) == [i \in DOMAIN s |-> LowerChar(s[i])]

\* station names: "Kx", " kX " and "K x" at the start, "Ox" and "oX " at the end
DepartureNames == {<<"K", "x">>, <<" ", "k", "X", " ">>, <<"K", " ", "x">>}
ArrivalNames == {<<"O", "x">>, <<"o", "X", " ">>}
MidPoint == [commonName |-> <<"M">>]

DeparturePoints ==
    {EmptyDict} \cup {Field("departurePoint", [commonName |-> n]) : n \in DepartureNames}
ArrivalPoints ==
    {EmptyDict} \cup {Field("arrivalPoint", [commonName |-> n]) : n \in ArrivalNames}

\* the legs of a journey of n >= 1 legs that starts with dep and ends with arr
LegsOf(dep, arr, n) ==
    [i \in 1..n |->
        (IF i = 1 THEN dep ELSE Field("departurePoint", MidPoint))
        @@ (IF i = n THEN arr ELSE Field("arrivalPoint", MidPoint))]

\* raw journeys, as far as the duplicate filter reads them
RouteJourneys ==
    {EmptyDict, Field("legs", <<>>)}
    \cup {Field("legs", LegsOf(dep, arr, n)) :
            dep \in DeparturePoints, arr \in ArrivalPoints, n \in 1..MaxLegs}

\* what requests.get / raise_for_status / json() give: a RequestException
\* (ok = FALSE) or the decoded body
Responses(journeys) ==
    {[ok |-> FALSE, data |-> EmptyDict], [ok |-> TRUE, data |-> EmptyDict]}
    \cup {[ok |-> TRUE, data |-> Field("journeys", l)] : l \in journeys}

\* lines 236-240
RouteKeyCaseSensitive(legs) ==
    <<Strip(Get(Get(legs[1], "departurePoint", EmptyDict), "commonName", <<>>)),
      Strip(Get(Get(legs[Len(legs)], "arrivalPoint", EmptyDict), "commonName", <<>>))>>

route_key(legs) ==
    LET first_leg == legs[1]
        last_leg == legs[Len(legs)]
        start_station == Strip(Get(Get(first_leg, "departurePoint", EmptyDict), "commonName", <<>>))
        end_station == Strip(Get(Get(last_leg, "arrivalPoint", EmptyDict), "commonName", <<>>))
    IN  <<Lower(start_station), Lower(end_station)>>

\* lines 231-245, one iteration: the seen_routes after the journey
SeenAlsoWithoutLegs(journey, seen_routes) ==
    LET legs == Get(journey, "legs", <<>>)
    IN  IF Len(legs) > 0 THEN seen_routes \cup {route_key(legs)}
        ELSE seen_routes \cup {<<<<>>, <<>>>>}

seen_after(journey, seen_routes) ==
    LET legs == Get(journey, "legs", <<>>)
    IN  IF Len(legs) > 0 THEN seen_routes \cup {route_key(legs)}
        ELSE seen_routes

\* lines 231-245, one iteration: whether the journey is appended
is_appended(journey, seen_routes) ==
    LET legs == Get(journey, "legs", <<>>)
    IN  Len(legs) > 0 /\ route_key(legs) \notin seen_routes

\* lines 227-245: the loop from journey i on
RECURSIVE filter_journeys(_, _, _, _)
filter_journeys(journeys, i, seen_routes, filtered_journeys) ==
    IF i > Len(journeys) THEN filtered_journeys
    ELSE filter_journeys(journeys, i + 1,
                         seen_after(journeys[i], seen_routes),
                         IF is_appended(journeys[i], seen_routes)
                         THEN Append(filtered_journeys, journeys[i])
                         ELSE filtered_journeys)

\* lines 223-249
options_of(data) ==
    LET journeys == Get(data, "journeys", <<>>)
    IN  IF journeys # <<>>
        THEN LET filtered_journeys == filter_journeys(journeys, 1, {}, <<>>)
             IN  IF filtered_journeys # <<>> THEN List(filtered_journeys) ELSE NoneList
        ELSE NoneList

\* lines 230-237: a departurePoint, arrivalPoint or commonName that is null
\* has no .get / .strip
point_faults(leg, k) ==
    IsNull(leg, k) \/ IsNull(Get(leg, k, EmptyDict), "commonName")

filter_faults(journeys) ==
    \E i \in DOMAIN journeys :
        LET legs == Get(journeys[i], "legs", <<>>)
        IN  /\ Len(legs) > 0
            /\ \/ point_faults(legs[1], "departurePoint")
               \/ point_faults(legs[Len(legs)], "arrivalPoint")

\* datetime.now().strftime('%Y%m%d')
Today == "20261104"

\* requests leaves a parameter whose value is None out of the query string
Wire(params) == [k \in {x \in DOMAIN params : ~params[x].isNone} |-> params[k]]

OptionalParam(kwargs, k, name) ==
    IF TruthyStr(Get(kwargs, k, NoneStr)) THEN Field(name, kwargs[k]) ELSE EmptyDict

\* lines 200-216; the values of via in the model have no space to encode
options_params(kwargs) ==
    [app_key |-> Str("key"),
     timeIs |-> Str(IF Get(kwargs, "time_is_arrival", FALSE) THEN "Arriving" ELSE "Departing")]
    @@ OptionalParam(kwargs, "mode", "mode")
    @@ OptionalParam(kwargs, "via", "via")
    @@ OptionalParam(kwargs, "journey_preference", "journeyPreference")
    @@ OptionalParam(kwargs, "time", "time")
    @@ Field("date", Get(kwargs, "date", Str(Today)))

\* lines 218-253: what the operation returns, or raises, after its request
RawListUnfiltered(response) ==
    IF ~response.ok THEN NoneList
    ELSE IF Get(response.data, "journeys", <<>>) # <<>>
    THEN List(response.data["journeys"])
    ELSE NoneList

all_options_outcome(response) ==
    IF ~response.ok THEN NoneList
    ELSE IF filter_faults(Get(response.data, "journeys", <<>>))
    THEN Raised("AttributeError")
    ELSE options_of(response.data)

InitDedup ==
    /\ tfl_app_key \in BOOLEAN
    /\ last_journey = [isNone |-> TRUE]
    /\ requests = 0
    /\ sent = EmptyDict
    /\ session = NoSession
    /\ stdin = <<>>
    /\ pc = "call"
    /\ call \in {[op |-> "get_all_journey_options", response |-> r] :
                    r \in Responses(SeqsUpTo(RouteJourneys, MaxJourneys))}
    /\ ret = NoReturn

\* lines 178-253
GetAllJourneyOptions ==
    /\ pc = "call"
    /\ call.op = "get_all_journey_options"
    /\ IF ~tfl_app_key
       THEN ret' = NoneList /\ UNCHANGED <<requests, sent>>
       ELSE /\ requests' = requests + 1
            /\ sent' = Wire(options_params(Get(call, "kwargs", EmptyDict)))
            /\ ret' = all_options_outcome(call.response)
    /\ pc' = "done"
    /\ UNCHANGED <<tfl_app_key, last_journey, call, session, stdin>>

NextDedup == GetAllJourneyOptions

SpecDedup == InitDedup /\ [][NextDedup]_vars

-----------------------------------------------------------------------------
(* TravelCalculator.get_tfl_journey, as calculate_monthly_commute_cost calls it *)

\* the value None where a journey dict is expected
NoJourney == [isNone |-> TRUE]

\* lines 110-118
CountsNoLegs(journey) ==
    [success |-> TRUE,
     duration_minutes |-> Get(journey, "duration", 0),
     arrival_time |-> Get(journey, "arrivalDateTime", NoneStr),
     start_time |-> Get(journey, "startDateTime", NoneStr),
     legs |-> 0,
     fare |-> extract_fare(journey),
     raw_data |-> journey]

normalize(journey) ==
    [success |-> TRUE,
     duration_minutes |-> Get(journey, "duration", 0),
     arrival_time |-> Get(journey, "arrivalDateTime", NoneStr),
     start_time |-> Get(journey, "startDateTime", NoneStr),
     legs |-> Len(Get(journey, "legs", <<>>)),
     fare |-> extract_fare(journey),
     raw_data |-> journey]

\* lines 65-69
key_missing_result ==
    [error |-> "TfL API key not found. Set TFL_APP_KEY in .env file", success |-> FALSE]

\* lines 101-130: the result built from the outcome of the request
NormalizesLastJourney(response) ==
    IF ~response.ok
    THEN [success |-> FALSE, error |-> "API request failed"]
    ELSE IF Get(response.data, "journeys", <<>>) # <<>>
    THEN normalize(response.data["journeys"][Len(response.data["journeys"])])
    ELSE [success |-> FALSE, error |-> "No journey found", raw_data |-> response.data]

tfl_journey_result(response) ==
    IF ~response.ok
    THEN [success |-> FALSE, error |-> "API request failed"]
    ELSE IF Get(response.data, "journeys", <<>>) # <<>>
    THEN normalize(response.data["journeys"][1])
    ELSE [success |-> FALSE, error |-> "No journey found", raw_data |-> response.data]

\* line 115: len(None) raises TypeError; line 116: so may _extract_fare
normalize_faults(journey) == IsNull(journey, "legs") \/ extract_fare_faults(journey)

\* lines 101-130: TypeError is not a RequestException and leaves the method
tfl_journey_outcome(response) ==
    IF /\ response.ok
       /\ Get(response.data, "journeys", <<>>) # <<>>
       /\ normalize_faults(response.data["journeys"][1])
    THEN Raised("TypeError")
    ELSE tfl_journey_result(response)

\* lines 74-99
tfl_params(kwargs) ==
    [app_key |-> Str("key"),
     mode |-> Get(kwargs, "mode", NoneStr),
     timeIs |-> Str(IF Get(kwargs, "time_is_arrival", FALSE) THEN "Arriving" ELSE "Departing")]
    @@ OptionalParam(kwargs, "via", "via")
    @@ OptionalParam(kwargs, "journey_preference", "journeyPreference")
    @@ OptionalParam(kwargs, "time", "time")
    @@ Field("date", IF Get(kwargs, "date", NoneStr).isNone THEN Str(Today)
                     ELSE kwargs["date"])

\* lines 38-134
GetTflJourney ==
    /\ pc = "call"
    /\ call.op = "get_tfl_journey"
    /\ IF ~tfl_app_key
       THEN ret' = key_missing_result /\ UNCHANGED <<last_journey, requests, sent>>
       ELSE LET result == tfl_journey_outcome(call.response)
            IN  /\ requests' = requests + 1
                /\ sent' = Wire(tfl_params(Get(call, "kwargs", EmptyDict)))
                /\ ret' = result
                /\ last_journey' = IF Has(result, "raised") THEN last_journey ELSE result
    /\ pc' = "done"
    /\ UNCHANGED <<tfl_app_key, call, session, stdin>>

-----------------------------------------------------------------------------
(* TravelCalculator.calculate_monthly_commute_cost *)

MaxDaysPerWeek == 7

\* x * 4.33 and x * 2.5 on exact decimals
Times433(x) == (x * 433) \div 100
Times25(x) == (x * 25) \div 10

\* lines 791-800
single_fare_of(fare) ==
    LET total == IF Truthy(Get(fare, "total_cost", None)) THEN fare["total_cost"].v ELSE 0
    IN  IF total = 0
        THEN IF Truthy(Get(fare, "off_peak_single", None)) THEN fare["off_peak_single"].v
             ELSE IF Truthy(Get(fare, "peak_single", None)) THEN fare["peak_single"].v
             ELSE total
        ELSE total

\* line 810
FourWeeksPerMonth(weekly_cost) == weekly_cost * 4

monthly_cost_of(weekly_cost) == Times433(weekly_cost)

\* lines 814-815
MonthlyCapFromDailyCost(single_fare) == Times25(single_fare * 2) * 20

monthly_cap_of(single_fare) ==
    LET daily_cap == Times25(single_fare)
    IN  daily_cap * 20

CapAlwaysApplied(a, b) == b

\* line 823
Min(a, b) == IF a <= b THEN a ELSE b

no_journey_data_result ==
    [success |-> FALSE,
     error |-> "No journey data available. Either provide from/to locations or call get_tfl_journey() first."]

\* lines 791-832
cost_estimate(journey, days_per_week) ==
    LET fare == Get(journey, "fare", EmptyDict)
        single_fare == single_fare_of(fare)
        daily_cost == single_fare * 2
        weekly_cost == daily_cost * days_per_week
        monthly_cost == monthly_cost_of(weekly_cost)
        annual_cost == monthly_cost * 12
        monthly_cap == monthly_cap_of(single_fare)
        result == [success |-> TRUE,
                   single_fare |-> single_fare,
                   daily_cost |-> daily_cost,
                   weekly_cost |-> weekly_cost,
                   monthly_cost |-> monthly_cost,
                   monthly_cost_with_cap |-> Min(monthly_cost, monthly_cap),
                   annual_cost |-> annual_cost,
                   duration_minutes |-> IF Has(journey, "duration_minutes")
                                        THEN Num(journey["duration_minutes"]) ELSE None,
                   journey_info |-> journey]
    IN  IF single_fare = 0
        THEN result @@ Field("warning", "Fare information not available from TfL API. Cost estimates will be 0.")
        ELSE result

PrefersCachedJourney(journey, days_per_week) ==
    LET used == IF last_journey # NoJourney /\ last_journey # EmptyDict
                THEN last_journey ELSE journey
    IN  IF ~Get(used, "success", FALSE) THEN used
        ELSE cost_estimate(used, days_per_week)

\* lines 788-832
estimate_or_failure(journey, days_per_week) ==
    IF ~Get(journey, "success", FALSE) THEN journey
    ELSE cost_estimate(journey, days_per_week)

\* raw journeys the service may answer a cost query with
QueryJourneys ==
    {EmptyDict,
     Field("fare", [totalCost |-> Num(250)]),
     Field("fare", [fares |-> <<[lowZone |-> 180, highZone |-> 220]>>])}

Locations == {NoneStr, Str(""), Str("SW1A 1AA")}

\* the journey arguments: every normalized journey and two failure results
JourneyArguments ==
    {normalize(r) : r \in FareJourneysUpTo(1)}
    \cup {key_missing_result, [success |-> FALSE, error |-> "No journey found"]}

CachedJourneys ==
    {NoJourney,
     normalize(Field("fare", [totalCost |-> Num(310)])),
     [success |-> FALSE, error |-> "No journey found", raw_data |-> EmptyDict]}

NoResponse == [ok |-> FALSE, data |-> EmptyDict]

CostCall(f, t, d, j, r) ==
    [op |-> "calculate_monthly_commute_cost", from_location |-> f, to_location |-> t,
     days_per_week |-> d, journey |-> j, response |-> r]

\* calls with an explicit journey argument, and calls that leave it out
InitCost ==
    /\ requests = 0
    /\ sent = EmptyDict
    /\ session = NoSession
    /\ stdin = <<>>
    /\ pc = "call"
    /\ ret = NoReturn
    /\ \/ /\ tfl_app_key \in BOOLEAN
          /\ last_journey \in CachedJourneys
          /\ call \in {CostCall(f, f, d, j, NoResponse) :
                          f \in Locations, d \in 1..MaxDaysPerWeek, j \in JourneyArguments}
       \/ /\ tfl_app_key \in BOOLEAN
          /\ last_journey \in CachedJourneys
          /\ call \in {CostCall(f, t, d, NoJourney, r) :
                          f \in Locations, t \in Locations, d \in 1..MaxDaysPerWeek,
                          r \in Responses(SeqsUpTo(QueryJourneys, 2))}

CacheBeforeFetch(journey, from_location, to_location, cached) ==
    IF journey # NoJourney THEN "argument"
    ELSE IF cached # NoJourney /\ cached # EmptyDict THEN "cache"
    ELSE IF TruthyStr(from_location) /\ TruthyStr(to_location) THEN "fetch"
    ELSE "none"

\* lines 776-786: where the journey to be costed comes from
journey_source(journey, from_location, to_location, cached) ==
    IF journey # NoJourney THEN "argument"
    ELSE IF TruthyStr(from_location) /\ TruthyStr(to_location) THEN "fetch"
    ELSE IF cached # NoJourney /\ cached # EmptyDict THEN "cache"
    ELSE "none"

\* lines 755-832
CalculateMonthlyCommuteCost ==
    /\ pc = "call"
    /\ call.op = "calculate_monthly_commute_cost"
    /\ pc' = "done"
    /\ UNCHANGED <<tfl_app_key, call, session, stdin>>
    /\ LET source == journey_source(call.journey, call.from_location,
                                    call.to_location, last_journey)
       IN  IF source = "argument"
           THEN /\ ret' = estimate_or_failure(call.journey, call.days_per_week)
                /\ UNCHANGED <<last_journey, requests, sent>>
           ELSE IF source = "fetch"
           THEN \* journey = self.get_tfl_journey(from_location, to_location)
                IF ~tfl_app_key
                THEN /\ ret' = estimate_or_failure(key_missing_result, call.days_per_week)
                     /\ UNCHANGED <<last_journey, requests, sent>>
                ELSE LET journey == tfl_journey_outcome(call.response)
                     IN  /\ requests' = requests + 1
                         /\ sent' = Wire(tfl_params(EmptyDict))
                         /\ IF Has(journey, "raised")
                            THEN ret' = journey /\ UNCHANGED last_journey
                            ELSE /\ last_journey' = journey
                                 /\ ret' = estimate_or_failure(journey, call.days_per_week)
           ELSE IF source = "cache"
           THEN /\ ret' = estimate_or_failure(last_journey, call.days_per_week)
                /\ UNCHANGED <<last_journey, requests, sent>>
           ELSE /\ ret' = no_journey_data_result
                /\ UNCHANGED <<last_journey, requests, sent>>

NextCost == CalculateMonthlyCommuteCost

SpecCost == InitCost /\ [][NextCost]_vars

-----------------------------------------------------------------------------
(* TravelCalculator.print_all_journey_options *)

NoData == [isNone |-> TRUE]
Data(d) == [isNone |-> FALSE, data |-> d]

\* lines 278-294
print_params(kwargs) ==
    [app_key |-> Str("key"),
     timeIs |-> Str(IF Get(kwargs, "time_is_arrival", FALSE) THEN "Arriving" ELSE "Departing")]
    @@ OptionalParam(kwargs, "mode", "mode")
    @@ OptionalParam(kwargs, "via", "via")
    @@ OptionalParam(kwargs, "journey_preference", "journeyPreference")
    @@ OptionalParam(kwargs, "time", "time")
    @@ Field("date", Get(kwargs, "date", Str(Today)))

\* lines 339-345 (and 414-420): the listing calls _extract_fare on every option
display_faults(journeys) ==
    \E i \in DOMAIN journeys : extract_fare_faults(journeys[i])

\* lines 296-389
print_outcome(response) ==
    IF ~response.ok THEN NoData
    ELSE LET journeys == Get(response.data, "journeys", <<>>)
         IN  IF journeys = <<>> THEN NoData
             ELSE IF filter_faults(journeys) THEN Raised("AttributeError")
             ELSE LET filtered_journeys == filter_journeys(journeys, 1, {}, <<>>)
                  IN  IF filtered_journeys = <<>> THEN NoData
                      ELSE IF display_faults(filtered_journeys) THEN Raised("TypeError")
                      ELSE Data(response.data)

\* lines 255-389
PrintAllJourneyOptions ==
    /\ pc = "call"
    /\ call.op = "print_all_journey_options"
    /\ IF ~tfl_app_key
       THEN ret' = NoData /\ UNCHANGED <<requests, sent>>
       ELSE /\ requests' = requests + 1
            /\ sent' = Wire(print_params(call.kwargs))
            /\ ret' = print_outcome(call.response)
    /\ pc' = "done"
    /\ UNCHANGED <<tfl_app_key, last_journey, call, session, stdin>>

-----------------------------------------------------------------------------
(* TravelCalculator.select_journey_option *)

\* int(choice) on a stripped string: an optional sign and decimal digits
IsDigit(c) == c \in {"0", "1", "2", "3", "4", "5", "6", "7", "8", "9"}

DigitValue(c) ==
    CASE c = "0" -> 0 [] c = "1" -> 1 [] c = "2" -> 2 [] c = "3" -> 3 [] c = "4" -> 4
      [] c = "5" -> 5 [] c = "6" -> 6 [] c = "7" -> 7 [] c = "8" -> 8 [] c = "9" -> 9

Unsigned(s) == IF s # <<>> /\ s[1] \in {"+", "-"} THEN Tail(s) ELSE s

\* whether int(s) returns rather than raises ValueError
IsInt(s) == Unsigned(s) # <<>> /\ \A i \in DOMAIN Unsigned(s) : IsDigit(Unsigned(s)[i])

RECURSIVE DigitsValue(_)
DigitsValue(s) ==
    IF s = <<>> THEN 0
    ELSE DigitsValue(SubSeq(s, 1, Len(s) - 1)) * 10 + DigitValue(s[Len(s)])

IntOf(s) == IF s[1] = "-" THEN 0 - DigitsValue(Unsigned(s)) ELSE DigitsValue(Unsigned(s))

\* what input() gives: a line of text, or KeyboardInterrupt
Typed(text) == [interrupt |-> FALSE, text |-> text]
KeyboardInterrupt == [interrupt |-> TRUE, text |-> <<>>]

KeyboardInputs ==
    {KeyboardInterrupt}
    \cup {Typed(t) : t \in {<<"1">>, <<" ", "2">>, <<"3">>, <<"0">>,
                            <<"q">>, <<"Q", " ">>, <<"x">>, <<>>}}

\* lines 475-483
selected_result(selected_journey) ==
    [success |-> TRUE,
     duration_minutes |-> Get(selected_journey, "duration", 0),
     arrival_time |-> Get(selected_journey, "arrivalDateTime", NoneStr),
     start_time |-> Get(selected_journey, "startDateTime", NoneStr),
     legs |-> Len(Get(selected_journey, "legs", <<>>)),
     fare |-> extract_fare(selected_journey),
     raw_data |-> selected_journey]

\* what a line of input leads to
\* what a line typed at the prompt leads to: "cancel", "pick" with the number
\* chosen, or "reprompt"

\* lines 462-496, with len(journeys) options on offer
QuitInLowerCaseOnly(in, len) ==
    IF in.interrupt THEN [then |-> "cancel", choice_num |-> 0]
    ELSE LET choice == Strip(in.text)
         IN  IF choice = <<"q">> THEN [then |-> "cancel", choice_num |-> 0]
             ELSE IF IsInt(choice) /\ 1 <= IntOf(choice) /\ IntOf(choice) <= len
             THEN [then |-> "pick", choice_num |-> IntOf(choice)]
             ELSE [then |-> "reprompt", choice_num |-> 0]

read_choice(in, len) ==
    IF in.interrupt THEN [then |-> "cancel", choice_num |-> 0]
    ELSE LET choice == Strip(in.text)
         IN  IF Lower(choice) = <<"q">> THEN [then |-> "cancel", choice_num |-> 0]
             ELSE IF IsInt(choice) /\ 1 <= IntOf(choice) /\ IntOf(choice) <= len
             THEN [then |-> "pick", choice_num |-> IntOf(choice)]
             ELSE [then |-> "reprompt", choice_num |-> 0]

SelectCall(kwargs, r, inputs) ==
    [op |-> "select_journey_option", kwargs |-> kwargs, response |-> r, inputs |-> inputs]

\* lines 403-458: the options are fetched and listed; the user then types
SelectJourneyOption ==
    /\ pc = "call"
    /\ call.op = "select_journey_option"
    /\ IF ~tfl_app_key
       THEN /\ ret' = NoJourney
            /\ pc' = "done"
            /\ UNCHANGED <<requests, sent, stdin>>
       ELSE LET journeys == all_options_outcome(call.response)
            IN  /\ requests' = requests + 1
                /\ sent' = Wire(options_params(call.kwargs))
                /\ IF Has(journeys, "raised")
                   THEN ret' = journeys /\ pc' = "done" /\ UNCHANGED stdin
                   ELSE IF journeys.isNone
                   THEN ret' = NoJourney /\ pc' = "done" /\ UNCHANGED stdin
                   ELSE IF display_faults(journeys.v)
                   THEN ret' = Raised("TypeError") /\ pc' = "done" /\ UNCHANGED stdin
                   ELSE ret' = NoReturn /\ pc' = "prompt" /\ stdin' = call.inputs
    /\ UNCHANGED <<tfl_app_key, last_journey, call, session>>

\* lines 461-496, one round of the loop: input() reads the next line, or
\* raises EOFError, which the loop does not catch, when there is none
SelectInput ==
    /\ pc = "prompt"
    /\ IF stdin = <<>>
       THEN /\ ret' = Raised("EOFError")
            /\ pc' = "done"
            /\ UNCHANGED <<last_journey, stdin>>
       ELSE LET journeys == options_of(call.response.data).v
                chosen == read_choice(Head(stdin), Len(journeys))
            IN  /\ stdin' = Tail(stdin)
                /\ IF chosen.then = "cancel"
                   THEN /\ ret' = NoJourney
                        /\ pc' = "done"
                        /\ UNCHANGED last_journey
                   ELSE IF chosen.then = "reprompt"
                   THEN UNCHANGED <<ret, pc, last_journey>>
                   ELSE /\ ret' = selected_result(journeys[chosen.choice_num])
                        /\ last_journey' = selected_result(journeys[chosen.choice_num])
                        /\ pc' = "done"
    /\ UNCHANGED <<tfl_app_key, requests, call, sent, session>>

-----------------------------------------------------------------------------
(* TravelCalculator.get_osrm_route *)

MaxRoutes == 2

\* n / d for a float quotient, kept exact
Ratio(n, d) == [num |-> n, den |-> d]

Profiles == {"driving", "walking", "cycling"}

\* routes of the service: meters and seconds, or a field missing or null
OsrmRoutes ==
    {[distance |-> d, duration |-> t] : d \in {0, 1500, 12345}, t \in {0, 90, 7200}}
    \cup {[duration |-> 90],
          [distance |-> 1500],
          [distance |-> 0, duration |-> 90, nulls |-> {"distance"}]}

OsrmBodies(routes) ==
    {c @@ r : c \in {EmptyDict, Field("code", Str("Ok")), Field("code", Str("NoRoute"))},
              r \in {EmptyDict} \cup {Field("routes", l) : l \in routes}}

OsrmResponses(routes) ==
    {[ok |-> FALSE, data |-> EmptyDict]} \cup {[ok |-> TRUE, data |-> b] : b \in OsrmBodies(routes)}

\* line 861
route_found(data) ==
    Get(data, "code", NoneStr) = Str("Ok") /\ Get(data, "routes", <<>>) # <<>>

\* lines 864-871
DistanceInHundreds(route, profile) ==
    [success |-> TRUE,
     distance_km |-> Ratio(route["distance"], 100),
     distance_miles |-> Ratio(route["distance"] * 100, 160934),
     duration_minutes |-> Ratio(route["duration"], 60),
     duration_hours |-> Ratio(route["duration"], 3600),
     profile |-> profile]

route_result(route, profile) ==
    [success |-> TRUE,
     distance_km |-> Ratio(route["distance"], 1000),
     distance_miles |-> Ratio(route["distance"] * 100, 160934),
     duration_minutes |-> Ratio(route["duration"], 60),
     duration_hours |-> Ratio(route["duration"], 3600),
     profile |-> profile]

\* lines 866-869: route['distance'] raises KeyError when the key is missing,
\* and None / 1000 raises TypeError
route_faults(route) ==
    IF ~Has(route, "distance") \/ ~Has(route, "duration") THEN Raised("KeyError")
    ELSE IF IsNull(route, "distance") \/ IsNull(route, "duration") THEN Raised("TypeError")
    ELSE NoReturn

\* lines 856-883
osrm_outcome(response, profile) ==
    IF ~response.ok
    THEN [success |-> FALSE, error |-> "OSRM request failed"]
    ELSE IF route_found(response.data)
    THEN LET route == response.data["routes"][1]
         IN  IF route_faults(route) # NoReturn THEN route_faults(route)
             ELSE route_result(route, profile)
    ELSE [success |-> FALSE, error |-> "No route found"]

OsrmCall(profile, r) == [op |-> "get_osrm_route", profile |-> profile, response |-> r]

InitOsrm ==
    /\ tfl_app_key \in BOOLEAN
    /\ last_journey = NoJourney
    /\ requests = 0
    /\ sent = EmptyDict
    /\ session = NoSession
    /\ stdin = <<>>
    /\ pc = "call"
    /\ ret = NoReturn
    /\ call \in {OsrmCall(p, r) :
                    p \in Profiles, r \in OsrmResponses(SeqsUpTo(OsrmRoutes, MaxRoutes))}

\* lines 834-883
GetOsrmRoute ==
    /\ pc = "call"
    /\ call.op = "get_osrm_route"
    /\ requests' = requests + 1
    /\ sent' = [overview |-> Str("false"), steps |-> Str("false")]
    /\ ret' = osrm_outcome(call.response, call.profile)
    /\ pc' = "done"
    /\ UNCHANGED <<tfl_app_key, last_journey, call, session, stdin>>

NextOsrm == GetOsrmRoute

SpecOsrm == InitOsrm /\ [][NextOsrm]_vars

-----------------------------------------------------------------------------
(* The dashboard (app.py): one run of the script *)

MaxOptions == 2
MaxRequests == 2

\* lines 20-26
InitialSession == [journey_result |-> NoJourney, all_journeys |-> NoneList]

\* lines 108-116
default_journey_result(journeys) ==
    [success |-> TRUE,
     duration_minutes |-> Get(journeys[1], "duration", 0),
     arrival_time |-> Get(journeys[1], "arrivalDateTime", NoneStr),
     start_time |-> Get(journeys[1], "startDateTime", NoneStr),
     legs |-> Len(Get(journeys[1], "legs", <<>>)),
     fare |-> extract_fare(journeys[1]),
     raw_data |-> journeys[1]]

\* lines 170-178
option_journey_result(selected_journey) ==
    [success |-> TRUE,
     duration_minutes |-> Get(selected_journey, "duration", 0),
     arrival_time |-> Get(selected_journey, "arrivalDateTime", NoneStr),
     start_time |-> Get(selected_journey, "startDateTime", NoneStr),
     legs |-> Len(Get(selected_journey, "legs", <<>>)),
     fare |-> extract_fare(selected_journey),
     raw_data |-> selected_journey]

\* the session and the cache after a part of the script, and whether an
\* exception ended the run there
ScriptState(s, lj, raised) == [session |-> s, last_journey |-> lj, raised |-> raised]

\* lines 98-121: the button handler, once both postcodes are there
on_calculate(s, lj, journeys) ==
    IF Has(journeys, "raised") THEN ScriptState(s, lj, TRUE)
    ELSE IF ~journeys.isNone
    THEN IF normalize_faults(journeys.v[1])
         THEN ScriptState([s EXCEPT !.all_journeys = journeys], lj, TRUE)
         ELSE ScriptState([journey_result |-> default_journey_result(journeys.v),
                           all_journeys |-> journeys],
                          default_journey_result(journeys.v), FALSE)
    ELSE ScriptState(InitialSession, lj, FALSE)

\* lines 124-127: whether the option selector is shown
selector_shown(s) ==
    /\ s.journey_result # NoJourney
    /\ s.journey_result.success
    /\ ~s.all_journeys.isNone
    /\ Len(s.all_journeys.v) > 1

\* lines 124-179: the option selector
on_display(st, selected_option) ==
    IF ~selector_shown(st.session) THEN st
    ELSE IF display_faults(st.session.all_journeys.v)
    THEN [st EXCEPT !.raised = TRUE]
    ELSE LET selected_journey == st.session.all_journeys.v[selected_option + 1]
         IN  ScriptState([st.session EXCEPT
                             !.journey_result = option_journey_result(selected_journey)],
                         option_journey_result(selected_journey), FALSE)

AppModes == {[journey_preference |-> Str("leasttime")],
             [mode |-> Str("tube"), journey_preference |-> Str("leastwalking")]}

-----------------------------------------------------------------------------
(* TravelCalculator.visualize_journey                                      *)
(* The map is the sequence of markers and polylines added to it, in the    *)
(* order they are added; colours, the legend and the browser are left out. *)

MaxMapLegs == 2

\* a stop with coordinates (k, k)
MapPoint(k, name) == [lat |-> Num(k), lon |-> Num(k), commonName |-> name]

\* an element of a lineString list: a list of numbers, or a bare number
Coord(c) == [isList |-> TRUE, v |-> c]
Scalar(n) == [isList |-> FALSE, v |-> <<n>>]

\* path.lineString: a list, or a str (a sequence of characters)
AsList(l) == Field("list", l)
AsStr(chars) == Field("str", chars)

LineStrings ==
    {AsList(<<Coord(<<7, 7>>), Coord(<<8, 8>>)>>),
     AsList(<<Coord(<<7, 7>>), Coord(<<8>>)>>),
     AsList(<<Scalar(7), Scalar(8)>>),
     AsList(<<>>),
     \* "7,7,8,8"
     AsStr(<<"7", ",", "7", ",", "8", ",", "8">>),
     \* "7,7"
     AsStr(<<"7", ",", "7">>),
     \* "[[7, 7],[8, 8]]"
     AsStr(<<"[", "[", "7", ",", " ", "7", "]", ",", "[", "8", ",", " ", "8", "]", "]">>),
     \* "[]"
     AsStr(<<"[", "]">>)}

Paths == {EmptyDict} \cup {Field("path", Field("lineString", ls)) : ls \in LineStrings}

\* str.strip('[]')
RECURSIVE LStripBrackets(_)
LStripBrackets(s) ==
    IF s # <<>> /\ Head(s) \in {"[", "]"} THEN LStripBrackets(Tail(s)) ELSE s

RECURSIVE RStripBrackets(_)
RStripBrackets(s) ==
    IF s # <<>> /\ s[Len(s)] \in {"[", "]"}
    THEN RStripBrackets(SubSeq(s, 1, Len(s) - 1)) ELSE s

StripBrackets(s) == RStripBrackets(LStripBrackets(s))

\* str.split(','): the pieces between the commas, at least one
RECURSIVE SplitFrom(_, _, _)
SplitFrom(s, i, piece) ==
    IF i > Len(s) THEN <<piece>>
    ELSE IF s[i] = "," THEN <<piece>> \o SplitFrom(s, i + 1, <<>>)
    ELSE SplitFrom(s, i + 1, Append(piece, s[i]))

SplitComma(s) == SplitFrom(s, 1, <<>>)

\* float(piece), for pieces made of digits, signs, spaces and brackets:
\* whether it returns rather than raises ValueError, and its value
IsFloat(piece) == IsInt(Strip(piece))
FloatOf(piece) == IntOf(Strip(piece))

\* what the parsing of a lineString leaves behind: the coordinates of the
\* path, whether an exception was caught, and the value of the variable i
Parsed(path_coords, failed, i) == [path_coords |-> path_coords, failed |-> failed, i |-> i]

\* lines 676-679: for i in range(0, len(coords), 2), from i on; the loop
\* variable is the i of the loop over the legs
RECURSIVE parse_pairs(_, _, _)
parse_pairs(coords, i, path_coords) ==
    IF i >= Len(coords) THEN Parsed(path_coords, FALSE, i - 2)
    ELSE IF i + 1 < Len(coords)
    THEN IF IsFloat(coords[i + 1]) /\ IsFloat(coords[i + 2])
         THEN parse_pairs(coords, i + 2,
                          Append(path_coords, <<FloatOf(coords[i + 1]), FloatOf(coords[i + 2])>>))
         ELSE Parsed(<<>>, TRUE, i)
    ELSE parse_pairs(coords, i + 2, path_coords)

\* lines 668-683, on a lineString that is not empty
parse_line_string(line_string, i) ==
    IF Has(line_string, "list")
    THEN LET l == line_string["list"]
         IN  IF l[1].isList
             THEN IF \A k \in DOMAIN l : l[k].isList /\ Len(l[k].v) >= 2
                  THEN Parsed([k \in DOMAIN l |-> <<l[k].v[1], l[k].v[2]>>], FALSE, i)
                  ELSE Parsed(<<>>, TRUE, i)
             ELSE Parsed(<<>>, FALSE, i)
    ELSE parse_pairs(SplitComma(StripBrackets(line_string["str"])), 0, <<>>)

Located(point) == Truthy(Get(point, "lat", None)) /\ Truthy(Get(point, "lon", None))
At(point) == <<point["lat"].v, point["lon"].v>>

\* lines 664-690: the path of a leg, and the i that is left
path_of(leg, i) ==
    LET departure == Get(leg, "departurePoint", EmptyDict)
        arrival == Get(leg, "arrivalPoint", EmptyDict)
        straight == IF Located(departure) /\ Located(arrival)
                    THEN <<At(departure), At(arrival)>> ELSE <<>>
        line_string == Get(Get(leg, "path", EmptyDict), "lineString", AsList(<<>>))
    IN  IF line_string # AsList(<<>>) /\ line_string # AsStr(<<>>)
        THEN LET parsed == parse_line_string(line_string, i)
             IN  IF parsed.failed THEN [parsed EXCEPT !.path_coords = straight] ELSE parsed
        ELSE Parsed(straight, FALSE, i)

Marker(at, text, number, name) ==
    [item |-> "Marker", at |-> at, text |-> text, number |-> number, name |-> name]
PolyLine(path_coords, i, dep_name, arr_name) ==
    [item |-> "PolyLine", path_coords |-> path_coords, leg |-> i,
     dep_name |-> dep_name, arr_name |-> arr_name]

\* lines 631-714, one leg: what is added to the map
leg_items(legs, k) ==
    LET leg == legs[k]
        departure == Get(leg, "departurePoint", EmptyDict)
        arrival == Get(leg, "arrivalPoint", EmptyDict)
        dep_name == Get(departure, "commonName", "Unknown")
        arr_name == Get(arrival, "commonName", "Unknown")
        path == path_of(leg, k)
        i == path.i
    IN  (IF Located(departure) /\ k = 1
         THEN <<Marker(At(departure), "START", 0, dep_name)>> ELSE <<>>)
        \o (IF path.path_coords # <<>>
            THEN <<PolyLine(path.path_coords, i, dep_name, arr_name)>> ELSE <<>>)
        \o (IF Located(arrival)
            THEN <<IF i < Len(legs) THEN Marker(At(arrival), "STOP", i, arr_name)
                   ELSE Marker(At(arrival), "END", 0, arr_name)>>
            ELSE <<>>)

RECURSIVE map_items(_, _)
map_items(legs, k) ==
    IF k > Len(legs) THEN <<>> ELSE leg_items(legs, k) \o map_items(legs, k + 1)

NoFile == [isNone |-> TRUE]

\* lines 593-753: the file written and returned, or None
visualize(journey, cached, output_file) ==
    LET chosen == IF journey = NoJourney THEN cached ELSE journey
    IN  IF chosen = NoJourney THEN NoFile
        ELSE IF ~Get(chosen, "success", FALSE) THEN NoFile
        ELSE LET legs == Get(Get(chosen, "raw_data", EmptyDict), "legs", <<>>)
             IN  IF legs = <<>> THEN NoFile
                 ELSE [isNone |-> FALSE, output_file |-> output_file,
                       map |-> map_items(legs, 1)]

StopName(k) ==
    CASE k = 1 -> "Home" [] k = 2 -> "Bank" [] k = 3 -> "Depot" [] OTHER -> "Office"

\* leg k of a journey runs from stop k to stop k + 1
MapLeg(k, path) ==
    [departurePoint |-> MapPoint(k, StopName(k)),
     arrivalPoint |-> MapPoint(k + 1, StopName(k + 1))] @@ path

MapLegs(n) == {[k \in 1..n |-> MapLeg(k, paths[k])] : paths \in [1..n -> Paths]}

\* journeys to draw: every leg located, or the one arrival without coordinates
MapJourneys ==
    {normalize(Field("legs", legs)) : legs \in UNION {MapLegs(n) : n \in 1..MaxMapLegs}}
    \cup {normalize(Field("legs", <<[departurePoint |-> MapPoint(1, StopName(1)),
                                     arrivalPoint |-> [commonName |-> StopName(2)]] @@ path>>)) :
            path \in Paths}

MapCall(journey, output_file) ==
    [op |-> "visualize_journey", journey |-> journey, output_file |-> output_file]

InitMap ==
    /\ tfl_app_key \in BOOLEAN
    /\ requests = 0
    /\ sent = EmptyDict
    /\ session = NoSession
    /\ stdin = <<>>
    /\ pc = "call"
    /\ ret = NoReturn
    /\ \/ /\ last_journey = NoJourney
          /\ call \in {MapCall(j, "journey_map.html") :
                          j \in MapJourneys \cup {NoJourney, key_missing_result,
                                                  normalize(EmptyDict)}}
       \/ /\ last_journey \in MapJourneys
          /\ Len(last_journey.raw_data["legs"]) = 1
          /\ call = MapCall(NoJourney, "journey_map.html")

\* lines 575-753
VisualizeJourney ==
    /\ pc = "call"
    /\ call.op = "visualize_journey"
    /\ ret' = visualize(call.journey, last_journey, call.output_file)
    /\ pc' = "done"
    /\ UNCHANGED <<tfl_app_key, last_journey, requests, call, sent, session, stdin>>

NextMap == VisualizeJourney

SpecMap == InitMap /\ [][NextMap]_vars

-----------------------------------------------------------------------------
(* The calculator in use: operations invoked one after another, from a     *)
(* script or from the dashboard                                            *)

Leg(dep, arr) == [departurePoint |-> [commonName |-> dep], arrivalPoint |-> [commonName |-> arr]]

\* journeys of the service: A and B share a start and an end, C does not,
\* D has no legs field
JourneyA ==
    [duration |-> 35,
     startDateTime |-> Str("2026-11-04T08:00:00"),
     arrivalDateTime |-> Str("2026-11-04T08:35:00"),
     legs |-> <<Leg(<<"K", "x">>, <<"M">>), Leg(<<"M">>, <<"O", "x">>)>>,
     fare |-> [totalCost |-> Num(280)]]
JourneyB ==
    [duration |-> 50,
     legs |-> <<Leg(<<" ", "k", "X", " ">>, <<"o", "X", " ">>)>>,
     fare |-> [fares |-> <<[lowZone |-> 180, highZone |-> 220]>>]]
JourneyC ==
    [duration |-> 20,
     legs |-> <<Leg(<<"K", " ", "x">>, <<"O", "x">>)>>]
JourneyD == EmptyDict

\* journeys with a null where the code expects a value
NullLegs == [legs |-> <<>>, nulls |-> {"legs"}]
NullLowZone ==
    [legs |-> <<Leg(<<"M">>, <<"O", "x">>)>>,
     fare |-> [fares |-> <<[lowZone |-> 0, nulls |-> {"lowZone"}]>>]]
NullDeparturePoint ==
    [legs |-> <<[departurePoint |-> EmptyDict,
                 arrivalPoint |-> [commonName |-> <<"O", "x">>],
                 nulls |-> {"departurePoint"}]>>]

ServiceJourneys == {JourneyA, JourneyB, JourneyC, JourneyD}

ServiceResponses ==
    Responses(SeqsUpTo(ServiceJourneys, MaxOptions)
              \cup {<<NullLegs>>, <<NullLowZone>>, <<NullDeparturePoint>>,
                    <<JourneyA, NullLowZone>>})

DefaultResponse == [ok |-> TRUE, data |-> Field("journeys", <<JourneyA, JourneyC>>)]

\* keyword arguments of a transit query
QueryOptions ==
    {EmptyDict,
     Field("date", NoneStr),
     Field("date", Str("20250115")),
     [mode |-> Str("tube"), via |-> Str("Bank"), journey_preference |-> Str("leasttime"),
      time |-> Str("0900"), time_is_arrival |-> TRUE]}

TransitOps ==
    {"get_tfl_journey", "get_all_journey_options",
     "print_all_journey_options", "select_journey_option"}

\* what the user types at the prompt of select_journey_option
Typescripts ==
    {<<>>,
     <<KeyboardInterrupt>>,
     <<Typed(<<"Q", " ">>), Typed(<<"1">>)>>,
     <<Typed(<<"x">>), Typed(<<"3">>), Typed(<<" ", "2">>)>>}

TransitCall(op, kwargs, r) == [op |-> op, kwargs |-> kwargs, response |-> r]

Calls ==
    {TransitCall(op, EmptyDict, r) :
        op \in TransitOps \ {"select_journey_option"}, r \in ServiceResponses}
    \cup {TransitCall(op, k, DefaultResponse) :
            op \in TransitOps \ {"select_journey_option"}, k \in QueryOptions}
    \cup {SelectCall(EmptyDict, r, <<Typed(<<"1">>)>>) : r \in ServiceResponses}
    \cup {SelectCall(k, DefaultResponse, inputs) : k \in QueryOptions, inputs \in Typescripts}
    \cup {CostCall(Str("SW1A 1AA"), Str("SW1A 1AA"), 5, NoJourney, r) : r \in ServiceResponses}
    \cup {CostCall(f, NoneStr, 5, NoJourney, NoResponse) : f \in Locations}
    \cup {CostCall(NoneStr, NoneStr, 5, j, NoResponse) :
            j \in {normalize(JourneyB), key_missing_result}}
    \cup {MapCall(j, "journey_map.html") :
            j \in {NoJourney, normalize(Field("legs", <<MapLeg(1, EmptyDict)>>))}}
    \cup {OsrmCall("driving", r) :
            r \in OsrmResponses({<<>>, <<[distance |-> 1500, duration |-> 90]>>,
                                 <<[duration |-> 90]>>})}

Init ==
    /\ tfl_app_key \in BOOLEAN
    /\ last_journey = NoJourney
    /\ requests = 0
    /\ sent = EmptyDict
    /\ session \in {NoSession, InitialSession}
    /\ stdin = <<>>
    /\ pc = "done"
    /\ call = [op |-> "__init__"]
    /\ ret = NoReturn

\* a script calls the next operation
Invoke ==
    /\ pc = "done"
    /\ session = NoSession
    /\ requests < MaxRequests
    /\ call' \in Calls
    /\ pc' = "call"
    /\ ret' = NoReturn
    /\ sent' = EmptyDict
    /\ stdin' = <<>>
    /\ UNCHANGED <<tfl_app_key, last_journey, requests, session>>

\* app.py lines 87-180: the script runs after a click on the button
\* (calculate_button) or after a change of the option selector
AppRun ==
    /\ pc = "done"
    /\ session # NoSession
    /\ \E calculate_button \in BOOLEAN, from_postcode \in Locations, to_postcode \in Locations,
          kwargs \in AppModes, r \in ServiceResponses, selected_option \in 0..(MaxOptions - 1) :
          LET fetches == calculate_button /\ TruthyStr(from_postcode) /\ TruthyStr(to_postcode)
              journeys == IF tfl_app_key THEN all_options_outcome(r) ELSE NoneList
              clicked == IF fetches THEN on_calculate(session, last_journey, journeys)
                         ELSE ScriptState(session, last_journey, FALSE)
              shown == IF clicked.raised THEN clicked ELSE on_display(clicked, selected_option)
          IN  /\ fetches /\ tfl_app_key => requests < MaxRequests
              /\ IF ~clicked.raised /\ selector_shown(clicked.session)
                 THEN selected_option < Len(clicked.session.all_journeys.v)
                 ELSE selected_option = 0
              /\ session' = shown.session
              /\ last_journey' = shown.last_journey
              /\ IF fetches /\ tfl_app_key
                 THEN requests' = requests + 1 /\ sent' = Wire(options_params(kwargs))
                 ELSE UNCHANGED <<requests, sent>>
              /\ call' = IF fetches
                         THEN [op |-> "app_run", calculate_button |-> TRUE,
                               kwargs |-> kwargs, response |-> r,
                               selected_option |-> selected_option]
                         ELSE [op |-> "app_run", calculate_button |-> calculate_button,
                               selected_option |-> selected_option]
              /\ ret' = IF shown.raised THEN Raised("Exception") ELSE NoReturn
    /\ UNCHANGED <<tfl_app_key, pc, stdin>>

Next ==
    \/ Invoke
    \/ GetTflJourney
    \/ GetAllJourneyOptions
    \/ PrintAllJourneyOptions
    \/ SelectJourneyOption
    \/ SelectInput
    \/ CalculateMonthlyCommuteCost
    \/ GetOsrmRoute
    \/ VisualizeJourney
    \/ AppRun

Spec == Init /\ [][Next]_vars

-----------------------------------------------------------------------------
(* select_journey_option on every typescript of at most MaxInputs lines *)

MaxInputs == 3

\* one option; three journeys of which the second repeats the key of the
\* first, that is two options; two options; and no option at all
InitSelect ==
    /\ tfl_app_key = TRUE
    /\ last_journey \in {NoJourney, normalize(JourneyD)}
    /\ requests = 0
    /\ sent = EmptyDict
    /\ session = NoSession
    /\ stdin = <<>>
    /\ pc = "call"
    /\ ret = NoReturn
    /\ call \in {SelectCall(EmptyDict, r, inputs) :
                    r \in Responses({<<JourneyA>>, <<JourneyB, JourneyA, JourneyC>>,
                                    <<JourneyA, JourneyC>>}),
                    inputs \in SeqsUpTo(KeyboardInputs, MaxInputs)}

NextSelect == SelectJourneyOption \/ SelectInput

SpecSelect == InitSelect /\ [][NextSelect]_vars

-----------------------------------------------------------------------------
(* Properties of fare extraction, checked under SpecFare *)

FareReturned == pc = "done" /\ call.op = "_extract_fare"
HasFareBlock == Has(call.journey, "fare")
fare_block == call.journey["fare"]

\* totalCost exists and is a positive number
TotalCostPositive ==
    /\ HasFareBlock
    /\ Has(fare_block, "totalCost")
    /\ ~fare_block["totalCost"].isNone
    /\ fare_block["totalCost"].v > 0

\* totalCost is absent or not positive, and fares is a non-empty list
FallbackTaken ==
    /\ HasFareBlock
    /\ ~TotalCostPositive
    /\ Has(fare_block, "fares")
    /\ fare_block["fares"] # <<>>

first_element == Head(fare_block["fares"])
PositiveKey(d, k) == Has(d, k) /\ d[k] > 0

\* amount is x / 100 pounds, x in pence
IsHundredthOf(amount, x) == ~amount.isNone /\ amount.v * 100 = x * 10000

\* C1: when the fare block has a positive totalCost, _extract_fare returns
\* total_cost = totalCost / 100 and leaves peak_single and off_peak_single
\* null whatever the fares list holds; totalCost = 250 gives 2.50.
C1_TotalCostStops ==
    (FareReturned /\ TotalCostPositive) =>
        /\ IsHundredthOf(ret.total_cost, fare_block["totalCost"].v)
        /\ ret.peak_single = None
        /\ ret.off_peak_single = None
        /\ (fare_block["totalCost"].v = 250 => ret.total_cost = Num(Pounds(2, 50)))

C1_Witness ==
    /\ FareReturned /\ TotalCostPositive
    /\ fare_block["totalCost"].v = 250
    /\ Has(fare_block, "fares") /\ Len(fare_block["fares"]) = 2
    /\ PositiveKey(fare_block["fares"][1], "lowZone")
    /\ PositiveKey(fare_block["fares"][1], "highZone")
    /\ ret.total_cost = Num(Pounds(2, 50))

\* C2: when totalCost is absent or not positive and fares is non-empty,
\* total_cost comes from the first fares element only: lowZone / 100 if
\* lowZone is positive, otherwise highZone / 100 if highZone is positive,
\* otherwise null; totalCost = 0 with [{lowZone: 180, highZone: 220}]
\* gives 1.80.
C2_FallbackTotalCost ==
    (FareReturned /\ FallbackTaken) =>
        /\ PositiveKey(first_element, "lowZone")
              => IsHundredthOf(ret.total_cost, first_element["lowZone"])
        /\ (~PositiveKey(first_element, "lowZone") /\ PositiveKey(first_element, "highZone"))
              => IsHundredthOf(ret.total_cost, first_element["highZone"])
        /\ (~PositiveKey(first_element, "lowZone") /\ ~PositiveKey(first_element, "highZone"))
              => ret.total_cost = None
        /\ (first_element = [lowZone |-> 180, highZone |-> 220]
              => ret.total_cost = Num(Pounds(1, 80)))

C2_Witness ==
    /\ FareReturned /\ FallbackTaken
    /\ Has(fare_block, "totalCost") /\ fare_block["totalCost"] = Num(0)
    /\ Len(fare_block["fares"]) = 2
    /\ first_element = [lowZone |-> 180, highZone |-> 220]
    /\ fare_block["fares"][2] = [highZone |-> 220]
    /\ ret.total_cost = Num(Pounds(1, 80))

\* C3: whenever the fallback on the first fares element is taken, the final
\* peak_single is highZone / 100 if the element has a highZone key at all
\* (a zero highZone gives 0, not null) and the final off_peak_single is
\* lowZone / 100 if it has a lowZone key at all; total_cost is left as the
\* positive zone fare chose it, or null.
C3_OverwriteRule ==
    (FareReturned /\ FallbackTaken) =>
        /\ Has(first_element, "highZone")
              => IsHundredthOf(ret.peak_single, first_element["highZone"])
        /\ Has(first_element, "lowZone")
              => IsHundredthOf(ret.off_peak_single, first_element["lowZone"])
        /\ (Has(first_element, "highZone") /\ first_element["highZone"] = 0)
              => ret.peak_single = Num(0)
        /\ ret.total_cost = None \/ ret.total_cost.v > 0
        /\ (ret.total_cost # None /\ ~PositiveKey(first_element, "lowZone"))
              => ret.total_cost = ret.peak_single

C3_Witness ==
    /\ FareReturned /\ FallbackTaken
    /\ first_element = [lowZone |-> 180, highZone |-> 0]
    /\ ret.total_cost = Num(Pounds(1, 80))
    /\ ret.off_peak_single = Num(Pounds(1, 80))
    /\ ret.peak_single = Num(0)

\* C4: a raw journey without a fare block gives a FareInfo whose four fields
\* are all null, and zones is non-null only when the fare block carries the
\* caveat text.
C4_NoFareBlockAllNull ==
    FareReturned =>
        /\ ~HasFareBlock =>
              /\ ret.total_cost = None
              /\ ret.peak_single = None
              /\ ret.off_peak_single = None
              /\ ret.zones = NoneStr
        /\ ret.zones # NoneStr =>
              /\ HasFareBlock
              /\ Has(fare_block, "caveatText")
              /\ ret.zones = fare_block["caveatText"]

C4_Witness ==
    /\ FareReturned
    /\ ~HasFareBlock
    /\ ret = [total_cost |-> None, peak_single |-> None,
              off_peak_single |-> None, zones |-> NoneStr]

-----------------------------------------------------------------------------
(* Properties of the duplicate filter, checked under SpecDedup *)

\* the operation returned after a request that the service answered
OptionsReturned ==
    /\ pc = "done"
    /\ call.op = "get_all_journey_options"
    /\ tfl_app_key
    /\ call.response.ok

input_journeys == Get(call.response.data, "journeys", <<>>)
\* the journeys of the result; a result of None holds no journey
kept_journeys == IF ret.isNone THEN <<>> ELSE ret.v

LegCount(journey) == IF Has(journey, "legs") THEN Len(journey["legs"]) ELSE 0

\* display names of the two ends of a journey with legs; a missing name is ""
StartName(journey) ==
    LET leg == Head(journey["legs"])
    IN  IF Has(leg, "departurePoint") THEN leg["departurePoint"]["commonName"] ELSE <<>>
EndName(journey) ==
    LET leg == journey["legs"][Len(journey["legs"])]
    IN  IF Has(leg, "arrivalPoint") THEN leg["arrivalPoint"]["commonName"] ELSE <<>>

\* equal after trimming whitespace and ignoring case
SameName(a, b) == Lower(Strip(a)) = Lower(Strip(b))
SameKey(j1, j2) ==
    SameName(StartName(j1), StartName(j2)) /\ SameName(EndName(j1), EndName(j2))

\* journey i has a leg and no earlier journey with a leg has its key
FirstWithKey(js, i) ==
    /\ LegCount(js[i]) > 0
    /\ \A k \in 1..(i - 1) : LegCount(js[k]) > 0 => ~SameKey(js[k], js[i])

RECURSIVE SubsequenceAt(_, _, _)
SubsequenceAt(js, idx, i) ==
    IF i > Len(js) THEN <<>>
    ELSE (IF i \in idx THEN <<js[i]>> ELSE <<>>) \o SubsequenceAt(js, idx, i + 1)

\* C5: the journeys kept by the duplicate filter are, in their original
\* order, exactly the journeys with at least one leg that are the first in
\* the list with their key (first departure name, last arrival name,
\* trimmed, case ignored); no two kept journeys share a key.
C5_KeepsFirstOfEachKey ==
    OptionsReturned =>
        /\ kept_journeys =
              SubsequenceAt(input_journeys,
                            {i \in DOMAIN input_journeys : FirstWithKey(input_journeys, i)}, 1)
        /\ \A a, b \in DOMAIN kept_journeys :
              a # b => ~SameKey(kept_journeys[a], kept_journeys[b])

\* "Kx" -> "Ox" in one leg, then " kX " -> "oX " in two legs and "K x" -> "Ox"
C5_Witness ==
    /\ OptionsReturned
    /\ Len(input_journeys) = 3
    /\ LegCount(input_journeys[1]) = 1 /\ LegCount(input_journeys[2]) = 2
    /\ LegCount(input_journeys[3]) = 1
    /\ StartName(input_journeys[1]) = <<"K", "x">>
    /\ StartName(input_journeys[2]) = <<" ", "k", "X", " ">>
    /\ StartName(input_journeys[3]) = <<"K", " ", "x">>
    /\ EndName(input_journeys[1]) = <<"O", "x">>
    /\ EndName(input_journeys[2]) = <<"o", "X", " ">>
    /\ EndName(input_journeys[3]) = <<"O", "x">>
    /\ ret = List(<<input_journeys[1], input_journeys[3]>>)

\* C6: a journey with zero legs (legs absent or empty) never appears in the
\* output, and it never marks a key as seen: a journey with legs that only
\* zero-leg journeys precede is kept as the first journey of the output.
C6_ZeroLegsDropped ==
    OptionsReturned =>
        /\ \A a \in DOMAIN kept_journeys : LegCount(kept_journeys[a]) > 0
        /\ \A i \in DOMAIN input_journeys :
              (/\ LegCount(input_journeys[i]) > 0
               /\ \A k \in 1..(i - 1) : LegCount(input_journeys[k]) = 0)
              => (~ret.isNone /\ Head(ret.v) = input_journeys[i])

C6_Witness ==
    /\ OptionsReturned
    /\ Len(input_journeys) = 3
    /\ input_journeys[1] = EmptyDict
    /\ input_journeys[2] = Field("legs", <<>>)
    /\ input_journeys[3] = Field("legs", <<EmptyDict>>)
    /\ ret = List(<<input_journeys[3]>>)

\* C7: deduplication of an empty journey list, or of a list in which every
\* journey is filtered out, yields an empty list of journeys.
C7_EmptyResultIsEmptyList ==
    (OptionsReturned /\ \A i \in DOMAIN input_journeys : LegCount(input_journeys[i]) = 0)
        => ret = List(<<>>)

-----------------------------------------------------------------------------
(* Properties of the cost estimator, checked under SpecCost *)

\* the operation returned an estimate; ret.journey_info is the journey it used
EstimateReturned ==
    /\ pc = "done"
    /\ call.op = "calculate_monthly_commute_cost"
    /\ Has(ret, "single_fare")

Positive(x) == ~x.isNone /\ x.v > 0

\* C8: the single fare used is fare.total_cost if it is positive, else
\* fare.off_peak_single if it is positive, else fare.peak_single if it is
\* positive, else 0; the estimate is a success in every case and carries a
\* warning exactly in the last one.
C8_FareResolution ==
    EstimateReturned =>
        LET fare == ret.journey_info.fare
        IN  /\ ret.success
            /\ ret.single_fare =
                  IF Positive(fare.total_cost) THEN fare.total_cost.v
                  ELSE IF Positive(fare.off_peak_single) THEN fare.off_peak_single.v
                  ELSE IF Positive(fare.peak_single) THEN fare.peak_single.v
                  ELSE 0
            /\ Has(ret, "warning") <=>
                  ~(\/ Positive(fare.total_cost)
                    \/ Positive(fare.off_peak_single)
                    \/ Positive(fare.peak_single))

\* C9: daily = single * 2, weekly = daily * days_per_week,
\* monthly = weekly * 4.33, annual = monthly * 12 and capped monthly =
\* min(monthly, single * 2.5 * 20); a single fare of 2.80 on 5 days a week
\* gives daily 5.60, weekly 28.00, monthly 121.24 and capped monthly 121.24.
C9_ProjectionFormulas ==
    EstimateReturned =>
        /\ ret.daily_cost = ret.single_fare * 2
        /\ ret.weekly_cost = ret.daily_cost * call.days_per_week
        /\ ret.monthly_cost * 100 = ret.weekly_cost * 433
        /\ ret.annual_cost = ret.monthly_cost * 12
        /\ ret.monthly_cost_with_cap =
              (IF ret.monthly_cost <= ret.single_fare * 50
               THEN ret.monthly_cost ELSE ret.single_fare * 50)
        /\ (ret.single_fare = Pounds(2, 80) /\ call.days_per_week = 5) =>
              /\ ret.daily_cost = Pounds(5, 60)
              /\ ret.weekly_cost = Pounds(28, 0)
              /\ ret.monthly_cost = Pounds(121, 24)
              /\ ret.monthly_cost_with_cap = Pounds(121, 24)

C9_Witness ==
    /\ EstimateReturned
    /\ call.journey # NoJourney
    /\ ret.single_fare = Pounds(2, 80)
    /\ call.days_per_week = 5
    /\ ret.monthly_cost = Pounds(121, 24)
    /\ ret.annual_cost = Pounds(1454, 88)

\* C10 as stated: the capped monthly cost equals
\* min(monthly_cost, daily_cost * 2.5 * 20).
C10_CapFromDailyCost ==
    EstimateReturned =>
        ret.monthly_cost_with_cap * 10 =
            Min(ret.monthly_cost * 10, ret.daily_cost * 25 * 20)

\* C10, amended: the capped monthly cost equals
\* min(monthly_cost, single_fare * 2.5 * 20), the single fare being the one
\* of the same estimate, that is half its daily cost.
C10_CapFromSingleFare ==
    EstimateReturned =>
        /\ ret.monthly_cost_with_cap * 10 =
              Min(ret.monthly_cost * 10, ret.single_fare * 25 * 20)
        /\ ret.single_fare * 2 = ret.daily_cost

\* six days a week at 2.80: the monthly cost of 145.488 is capped at 140.00
C10_Witness ==
    /\ EstimateReturned
    /\ ret.single_fare = Pounds(2, 80)
    /\ call.days_per_week = 6
    /\ ret.monthly_cost = Pounds(145, 48) + 80
    /\ ret.monthly_cost_with_cap = Pounds(140, 0)

\* C11: every monetary field of a returned estimate is non-negative, whatever
\* the raw fare fields of the journey were.
C11_EstimateNonNegative ==
    EstimateReturned =>
        /\ ret.single_fare >= 0
        /\ ret.daily_cost >= 0
        /\ ret.weekly_cost >= 0
        /\ ret.monthly_cost >= 0
        /\ ret.monthly_cost_with_cap >= 0
        /\ ret.annual_cost >= 0

-----------------------------------------------------------------------------
(* Properties of the calculator in use, checked under Spec *)

Returned(op) == pc = "done" /\ call.op = op

\* the operation asks, or would ask, the transit service
FetchesTransit ==
    \/ call.op \in TransitOps
    \/ /\ call.op = "calculate_monthly_commute_cost"
       /\ call.journey = NoJourney
       /\ TruthyStr(call.from_location)
       /\ TruthyStr(call.to_location)

\* a tagged failure that names the missing credentials
IsCredentialsMissing(r) ==
    /\ Has(r, "success")
    /\ ~r.success
    /\ Has(r, "error")
    /\ r.error = "TfL API key not found. Set TFL_APP_KEY in .env file"

\* C12: without an API key, every operation that needs the transit service
\* returns a tagged failure naming the missing credentials, and no request
\* is issued.
C12_CredentialsMissing ==
    (pc = "done" /\ ~tfl_app_key /\ FetchesTransit) =>
        IsCredentialsMissing(ret) /\ requests = 0

\* C13: the cache is empty or holds the normalized journey of a successful
\* fetch or selection.
C13_CacheHoldsSuccess ==
    \/ last_journey = NoJourney
    \/ Has(last_journey, "success") /\ last_journey.success

ZeroJourneys == call.response.ok /\ Get(call.response.data, "journeys", <<>>) = <<>>

\* what the operation returns when the transport fails
transport_failure_result(op) ==
    IF op = "get_tfl_journey" THEN tfl_journey_outcome(NoResponse)
    ELSE all_options_outcome(NoResponse)

\* C14: a response with zero journeys gives a tagged "not found" result that
\* differs from the result of a transport failure, in get_tfl_journey and in
\* get_all_journey_options.
C14_NotFoundIsTagged ==
    /\ pc = "done"
    /\ tfl_app_key
    /\ call.op \in {"get_tfl_journey", "get_all_journey_options"}
    /\ ZeroJourneys
    => /\ Has(ret, "error")
       /\ ret # transport_failure_result(call.op)

\* C15: get_tfl_journey, get_all_journey_options and get_osrm_route return a
\* result for every response; no exception leaves them.
C15_NoExceptionEscapes ==
    /\ pc = "done"
    /\ call.op \in {"get_tfl_journey", "get_all_journey_options", "get_osrm_route"}
    => ~Has(ret, "raised")

\* get_tfl_journey returned on a response that holds journeys
FetchedJourneys ==
    /\ Returned("get_tfl_journey")
    /\ tfl_app_key
    /\ call.response.ok
    /\ Get(call.response.data, "journeys", <<>>) # <<>>
    /\ ~Has(ret, "raised")

\* C16: when the response holds journeys, get_tfl_journey returns the
\* normalization of the first of them (success, its duration, times, fare and
\* the raw journey), and the cache holds the returned result.
C16_FirstJourneyNormalized ==
    FetchedJourneys =>
        LET journey == call.response.data["journeys"][1]
        IN  /\ ret.success
            /\ ret.raw_data = journey
            /\ ret.duration_minutes = Get(journey, "duration", 0)
            /\ ret.start_time = Get(journey, "startDateTime", NoneStr)
            /\ ret.arrival_time = Get(journey, "arrivalDateTime", NoneStr)
            /\ ret.fare = extract_fare(journey)
            /\ last_journey = ret

C16_Witness ==
    /\ FetchedJourneys
    /\ Len(call.response.data["journeys"]) > 1
    /\ call.response.data["journeys"][1] # call.response.data["journeys"][2]
    /\ ret.duration_minutes = 35
    /\ last_journey = ret

IsNormalized(j) == Has(j, "success") /\ j.success /\ Has(j, "raw_data")

leg_count_of(raw) == IF Has(raw, "legs") THEN Len(raw["legs"]) ELSE 0

Range(seq) == {seq[i] : i \in DOMAIN seq}

\* C17: every normalized journey, whether returned by get_tfl_journey or
\* select_journey_option, held by the dashboard or cached, has as many legs as
\* its raw journey lists (0 without a legs field), and its raw journey is the
\* one it was made from.
C17_LegCountOfRaw ==
    /\ Returned("get_tfl_journey") /\ IsNormalized(ret) =>
          /\ ret.legs = leg_count_of(ret.raw_data)
          /\ ret.raw_data = call.response.data["journeys"][1]
    /\ Returned("select_journey_option") /\ IsNormalized(ret) =>
          /\ ret.legs = leg_count_of(ret.raw_data)
          /\ ret.raw_data \in Range(options_of(call.response.data).v)
    /\ session # NoSession /\ session.journey_result # NoJourney =>
          /\ session.journey_result.legs = leg_count_of(session.journey_result.raw_data)
          /\ call.op = "app_run" /\ ret = NoReturn /\ selector_shown(session) =>
                session.journey_result.raw_data =
                    session.all_journeys.v[call.selected_option + 1]
    /\ IsNormalized(last_journey) =>
          last_journey.legs = leg_count_of(last_journey.raw_data)

C17_Witness ==
    /\ Returned("get_tfl_journey")
    /\ IsNormalized(ret)
    /\ ret.legs = 2
    /\ ret.raw_data = JourneyA

\* the dashboard's option selector made a normalized journey of the second option
C17_SelectorWitness ==
    /\ session # NoSession
    /\ call.op = "app_run"
    /\ selector_shown(session)
    /\ call.selected_option = 1
    /\ session.journey_result.legs = 1
    /\ last_journey = session.journey_result

\* C18: the request of get_tfl_journey, get_all_journey_options and
\* print_all_journey_options carries a date: the caller's, or the current
\* date when the caller gives none or gives None.
C18_DateAlwaysSent ==
    /\ pc = "done"
    /\ tfl_app_key
    /\ call.op \in {"get_tfl_journey", "get_all_journey_options", "print_all_journey_options"}
    => /\ Has(sent, "date")
       /\ sent["date"] = IF Get(call.kwargs, "date", NoneStr).isNone THEN Str(Today)
                         ELSE call.kwargs["date"]

-----------------------------------------------------------------------------
(* The list returned by get_all_journey_options, checked under SpecDedup *)

JourneysReturned == OptionsReturned /\ input_journeys # <<>>

-----------------------------------------------------------------------------
(* Properties of the road router, checked under SpecOsrm *)

OsrmReturned == Returned("get_osrm_route") /\ ~Has(ret, "raised")

OkWithRoutes ==
    /\ call.response.ok
    /\ Has(call.response.data, "code")
    /\ call.response.data["code"] = Str("Ok")
    /\ Has(call.response.data, "routes")
    /\ Len(call.response.data["routes"]) > 0

\* q is the quotient n / d
IsQuotient(q, n, d) == q.num * d = n * q.den

\* C20: get_osrm_route succeeds exactly when the response has code "Ok" and a
\* route; it then gives the first route's meters / 1000 as kilometers and its
\* seconds / 60 and / 3600 as minutes and hours; otherwise it gives a failure
\* with an error text and neither distance nor duration.
C20_OsrmResult ==
    OsrmReturned =>
        /\ ret.success <=> OkWithRoutes
        /\ ret.success =>
              LET route == call.response.data["routes"][1]
              IN  /\ IsQuotient(ret.distance_km, route["distance"], 1000)
                  /\ IsQuotient(ret.duration_minutes, route["duration"], 60)
                  /\ IsQuotient(ret.duration_hours, route["duration"], 3600)
        /\ ~ret.success => DOMAIN ret = {"success", "error"}

C20_Witness ==
    /\ OsrmReturned
    /\ OkWithRoutes
    /\ Len(call.response.data["routes"]) = 2
    /\ ret.success
    /\ ret.distance_km = Ratio(12345, 1000)
    /\ ret.duration_hours = Ratio(7200, 3600)

-----------------------------------------------------------------------------
(* Properties of the map, checked under SpecMap *)

MapDrawn == Returned("visualize_journey") /\ ~ret.isNone

\* the legs of the journey that was drawn
drawn_legs ==
    (IF call.journey = NoJourney THEN last_journey ELSE call.journey).raw_data["legs"]

AllLocated ==
    \A k \in DOMAIN drawn_legs :
        Located(drawn_legs[k]["departurePoint"]) /\ Located(drawn_legs[k]["arrivalPoint"])

\* the positions in the map of the markers with a text
MarkersWith(text) ==
    {i \in DOMAIN ret.map : ret.map[i].item = "Marker" /\ ret.map[i].text = text}

\* C21: a journey whose legs all have coordinates is drawn with one start
\* marker at the first departure, one end marker at the last arrival, a stop
\* marker numbered k at the arrival of every leg k but the last, and every
\* polyline labelled with the number of its leg, whatever the lineString.
C21_MarkersAndLabels ==
    MapDrawn /\ AllLocated =>
        LET n == Len(drawn_legs)
        IN  /\ Cardinality(MarkersWith("START")) = 1
            /\ \A i \in MarkersWith("START") :
                  ret.map[i].at = At(drawn_legs[1]["departurePoint"])
            /\ Cardinality(MarkersWith("END")) = 1
            /\ \A i \in MarkersWith("END") :
                  ret.map[i].at = At(drawn_legs[n]["arrivalPoint"])
            /\ Cardinality(MarkersWith("STOP")) = n - 1
            /\ \A k \in 1..(n - 1) :
                  \E i \in MarkersWith("STOP") :
                      /\ ret.map[i].number = k
                      /\ ret.map[i].at = At(drawn_legs[k]["arrivalPoint"])
            /\ \A i \in DOMAIN ret.map :
                  ret.map[i].item = "PolyLine" =>
                      /\ ret.map[i].leg \in 1..n
                      /\ ret.map[i].dep_name =
                            drawn_legs[ret.map[i].leg]["departurePoint"]["commonName"]

-----------------------------------------------------------------------------
(* Properties of the selection loop, checked under SpecSelect *)

\* the deduplicated options on offer at the prompt
options_on_offer == options_of(call.response.data).v

Quits(in) == in.interrupt \/ Strip(in.text) \in {<<"q">>, <<"Q">>}

PicksOption(in) ==
    /\ ~in.interrupt
    /\ IsInt(Strip(in.text))
    /\ IntOf(Strip(in.text)) \in 1..Len(options_on_offer)

\* C22: at the prompt, each line typed is read in order. 'q' in any case, or
\* a keyboard interrupt, ends the loop with None and the cache as it was; an
\* integer k between 1 and the number of options ends it with the
\* normalization of option k of the deduplicated list, which the cache then
\* holds; any other line changes nothing and the prompt is shown again.
C22_SelectionLoop ==
    [][pc = "prompt" /\ stdin # <<>> =>
          /\ stdin' = Tail(stdin)
          /\ Quits(Head(stdin)) =>
                pc' = "done" /\ ret' = NoJourney /\ last_journey' = last_journey
          /\ PicksOption(Head(stdin)) =>
                LET option == options_on_offer[IntOf(Strip(Head(stdin).text))]
                IN  /\ pc' = "done"
                    /\ ret'.success
                    /\ ret'.raw_data = option
                    /\ ret'.legs = Len(option["legs"])
                    /\ ret'.duration_minutes = option["duration"]
                    /\ ret'.fare = extract_fare(option)
                    /\ last_journey' = ret'
          /\ ~Quits(Head(stdin)) /\ ~PicksOption(Head(stdin)) =>
                /\ pc' = "prompt"
                /\ UNCHANGED <<tfl_app_key, last_journey, requests, call, ret, sent, session>>
      ]_vars

\* "x" and "3" are passed over, " 2" picks the second of the two options
\* that are left of three journeys
C22_Witness ==
    /\ Returned("select_journey_option")
    /\ call.response.ok
    /\ Get(call.response.data, "journeys", <<>>) = <<JourneyB, JourneyA, JourneyC>>
    /\ call.inputs = <<Typed(<<"x">>), Typed(<<"3">>), Typed(<<" ", "2">>)>>
    /\ stdin = <<>>
    /\ IsNormalized(ret)
    /\ ret.raw_data = JourneyC
    /\ last_journey = ret

\* "Q " cancels: nothing is returned and the journey cached before stays
C22_QuitWitness ==
    /\ Returned("select_journey_option")
    /\ call.inputs = <<Typed(<<>>), Typed(<<"Q", " ">>), Typed(<<"1">>)>>
    /\ stdin = <<Typed(<<"1">>)>>
    /\ ret = NoJourney
    /\ last_journey = normalize(JourneyD)

-----------------------------------------------------------------------------
(* Properties of the journey source of the cost estimator, checked under
   SpecCost *)

CostInvoked == pc = "call" /\ call.op = "calculate_monthly_commute_cost"

JourneyGiven == call.journey # NoJourney

BothLocationsGiven ==
    /\ ~call.from_location.isNone /\ call.from_location.v # ""
    /\ ~call.to_location.isNone /\ call.to_location.v # ""

CacheFilled == last_journey # NoJourney /\ last_journey # EmptyDict

\* what the call does with the journey j it has chosen: a failure is returned
\* as it is, a success is costed
CostedOrReturned(j) ==
    IF Get(j, "success", FALSE)
    THEN ret'.success /\ Has(ret', "monthly_cost") /\ ret'.journey_info = j
    ELSE ret' = j

-----------------------------------------------------------------------------
(* Properties of the cost estimator called with a journey argument, checked
   under SpecCost *)

\* C24: with a journey argument the estimator sends no request, leaves the
\* cache and the journey it was given as they are, and what it returns is
\* determined by the journey and days_per_week alone: the journey itself when
\* it is not a success, else the estimate of that journey, whatever the key
\* and the cache are.
C24_PureWithJourneyArgument ==
    [][CostInvoked /\ JourneyGiven =>
          /\ UNCHANGED <<requests, sent, last_journey, call, tfl_app_key>>
          /\ ret' = IF Get(call.journey, "success", FALSE)
                    THEN cost_estimate(call.journey, call.days_per_week)
                    ELSE call.journey
          /\ Get(ret', "success", FALSE) => ret'.journey_info = call'.journey
      ]_vars

\* a journey argument with fare 2.50 is costed while the cache holds another
\* journey (fare 3.10) and both locations are given: nothing is sent and the
\* cache stays
C24_Witness ==
    /\ Returned("calculate_monthly_commute_cost")
    /\ call.journey = normalize(Field("fare", [totalCost |-> Num(250)]))
    /\ call.from_location = Str("SW1A 1AA")
    /\ call.to_location = Str("SW1A 1AA")
    /\ last_journey = normalize(Field("fare", [totalCost |-> Num(310)]))
    /\ requests = 0
    /\ sent = EmptyDict
    /\ Get(ret, "success", FALSE)
    /\ ret.single_fare = Pounds(2, 50)
    /\ ret.journey_info = call.journey

-----------------------------------------------------------------------------
(* Properties of the monthly cap, checked under SpecCost *)

\* C25: for a positive single fare the capped monthly cost is the monthly
\* cost on 1 to 5 days per week, and on 6 or more days it is 50 single fares
\* and strictly below the monthly cost; for a single fare of 0 both are 0.
C25_CapBindsFromSixDays ==
    EstimateReturned =>
        LET single == ret.single_fare
            days == call.days_per_week
        IN  /\ single > 0 /\ days <= 5 =>
                ret.monthly_cost_with_cap = ret.monthly_cost
            /\ single > 0 /\ days >= 6 =>
                /\ ret.monthly_cost_with_cap = single * 50
                /\ ret.monthly_cost_with_cap < ret.monthly_cost
            /\ single = 0 =>
                ret.monthly_cost_with_cap = 0 /\ ret.monthly_cost = 0

\* single fare 2.80 on 6 days: monthly cost 145.488, capped at 140.00
C25_Witness ==
    /\ EstimateReturned
    /\ call.days_per_week = 6
    /\ ret.single_fare = Pounds(2, 80)
    /\ ret.monthly_cost = Pounds(145, 48) + 80
    /\ ret.monthly_cost_with_cap = Pounds(140, 0)

\* single fare 2.80 on 5 days: the cap of 140.00 is not reached
C25_UncappedWitness ==
    /\ EstimateReturned
    /\ call.days_per_week = 5
    /\ ret.single_fare = Pounds(2, 80)
    /\ ret.monthly_cost = Pounds(121, 24)
    /\ ret.monthly_cost_with_cap = Pounds(121, 24)

====
